---- MODULE Spec2Model ----
(***************************************************************************)
(* Model of the splitbench orchestration CLI                               *)
(* (src/src/splitbrain_diskspd_k8s/cli.py): the `single` and `multi`       *)
(* commands, the kubectl wrapper, the wait step and capture_logs.          *)
(*                                                                         *)
(* Text (stdout, stderr, file contents) is a sequence of one-character or  *)
(* literal tokens, so that strip(), split() and the emptiness tests of the *)
(* code are computed rather than assumed.                                  *)
(***************************************************************************)
EXTENDS Integers, Sequences, FiniteSets, TLC

\* Largest value of the --nodes option explored.
MaxNodes == 2

\* Worker identities: 0 is the single-node sentinel, 1..MaxNodes the workers.
Workers == 0..MaxNodes

\* Characters str.strip() removes.
Whitespace == {" ", "\n"}

\* Outputs a `kubectl logs` call can print: nothing, a blank line, a log line.
LogOutputs == {<<>>, <<"\n">>, <<"l", "\n">>}

\* Outputs a `kubectl get pods -o name` call can print: nothing, or two pods.
PodOutputs == {<<>>, <<"p", "\n", "q", "\n">>}

\* Error texts (stderr) of a failing kubectl call.
Stderrs == {<<"e">>, <<"f">>}

\* Outcomes of `kubectl wait --for=condition=complete --timeout=...`.
WaitOutcomes == {"complete", "timeout", "error"}

VARIABLES
    mode,        \* "single" or "multi": the command that was invoked
    nodes,       \* the --nodes option
    pc,          \* position of the command's main body
    deployIdx,   \* loop variable i of the deployment loop
    tempFiles,   \* temp yaml files on disk (0: temp_single_node.yaml, i: temp_node_<i>.yaml)
    submitted,   \* workers whose `kubectl apply` succeeded
    rejected,    \* workers whose `kubectl apply` failed
    exitCode,    \* exit status, meaningful when pc = "exit"
    tpc,         \* position of each worker's process_node task
    ready,       \* event-loop ready queue of created tasks
    running,     \* the set holding the task that occupies the (single) thread
    waitResult,  \* value returned by wait_for_job_completion per worker
    calls,       \* control-plane calls made for each worker's log retrieval
    result,      \* capture_logs local `result.stdout`
    e,           \* capture_logs local `e.stderr`
    podName,     \* capture_logs local `pod_name`
    written,     \* contents written to node-<i>.txt (0: single-node.txt), in order
    \* parse_results.py (the second pass over the artifacts)
    entry,       \* which function of parse_results.py is under way
    ppc,         \* position inside parse_results.py
    content,     \* parse_result_file: the text read from the artifact
    record,      \* parse_result_file: the returned dict, as ordered <<key, value>> pairs
    files,       \* os.listdir(RESULTS_DIR) filtered to node-*.txt, with each file's state
    fileIdx,     \* process_benchmark_results: number of node files handled so far
    allResults,  \* process_benchmark_results: all_results / the `results` argument
    csvFiles     \* CSV files on disk, in order of creation

cliVars == <<mode, nodes, pc, deployIdx, tempFiles, submitted, rejected, exitCode,
             tpc, ready, running, waitResult, calls, result, e, podName, written>>

parseVars == <<entry, ppc, content, record, files, fileIdx, allResults, csvFiles>>

vars == <<cliVars, parseVars>>

orchVars == <<mode, nodes, deployIdx, tempFiles, submitted, rejected>>
taskVars == <<tpc, ready, running, waitResult>>
logVars == <<calls, result, e, podName, written>>

----------------------------------------------------------------------------
(* Text helpers *)

RECURSIVE LStrip(_)
LStrip(s) == IF s # <<>> /\ Head(s) \in Whitespace THEN LStrip(Tail(s)) ELSE s

RECURSIVE RStrip(_)
RStrip(s) ==
    IF s # <<>> /\ s[Len(s)] \in Whitespace
    THEN RStrip(SubSeq(s, 1, Len(s) - 1))
    ELSE s

\* str.strip()
Strip(s) == RStrip(LStrip(s))

RECURSIVE FirstLine(_)
\* s.split("\n")[0]
FirstLine(s) ==
    IF s = <<>> \/ Head(s) = "\n" THEN <<>> ELSE <<Head(s)>> \o FirstLine(Tail(s))

IsBlank_NoStrip(s) == s = <<>>

\* `not x.stdout.strip()`
IsBlank(s) == Strip(s) = <<>>

\* pod_name = x.stdout.strip().split("\n")[0]
FirstPod(out) == FirstLine(Strip(out))

Diagnostic_SecondOnly(n, err, err2) ==
    <<"Failed to capture logs for node ", ToString(n), ".", "\n", "Error: ">>
        \o err2 \o <<"\n", "Second error: ">> \o err2

\* f"Failed to capture logs for node {node_num}.\nError: {e.stderr}\nSecond error: {e2.stderr}"
Diagnostic(n, err, err2) ==
    <<"Failed to capture logs for node ", ToString(n), ".", "\n", "Error: ">>
        \o err \o <<"\n", "Second error: ">> \o err2

\* One recorded control-plane call of log retrieval.
Call(cmd, target, ok, out) == [cmd |-> cmd, target |-> target, ok |-> ok, out |-> out]

----------------------------------------------------------------------------
\* parse_results.py is not running.
ParseIdle ==
    /\ entry = "none"
    /\ ppc = "idle"
    /\ content = [lines |-> <<>>, nl |-> TRUE]
    /\ record = <<>>
    /\ files = <<>>
    /\ fileIdx = 0
    /\ allResults = <<>>
    /\ csvFiles = <<>>

Init ==
    /\ ParseIdle
    /\ mode \in {"single", "multi"}
    /\ nodes \in 1..MaxNodes
    /\ (mode = "single" => nodes = 1)
    /\ pc = "write"
    /\ deployIdx = IF mode = "single" THEN 0 ELSE 1
    /\ tempFiles = {}
    /\ submitted = {}
    /\ rejected = {}
    /\ exitCode = 0
    /\ tpc = [i \in Workers |-> "none"]
    /\ ready = <<>>
    /\ running = {}
    /\ waitResult = [i \in Workers |-> "none"]
    /\ calls = [i \in Workers |-> <<>>]
    /\ result = [i \in Workers |-> <<>>]
    /\ e = [i \in Workers |-> <<>>]
    /\ podName = [i \in Workers |-> <<>>]
    /\ written = [i \in Workers |-> <<>>]

----------------------------------------------------------------------------
(* Shared pieces *)

\* run_kubectl_command: `raise typer.Exit(code=1)` on CalledProcessError
KubectlExitCode == 1

\* wait_for_job_completion: True when kubectl wait succeeds, False on CalledProcessError
WaitForJobCompletion(outcome) == IF outcome = "complete" THEN "True" ELSE "False"

ProcessNodeNext_Always(res) == "A"

\* process_node: `if result: await capture_logs(...)`
ProcessNodeNext(res) == IF res = "True" THEN "A" ELSE "finished"

AfterPodList_Fallback(out) == IF ~IsBlank(out) THEN "B2" ELSE "C1"

\* capture_logs: `if pod_list.stdout.strip():` inside the try block
AfterPodList(out) == IF ~IsBlank(out) THEN "B2" ELSE "write"

----------------------------------------------------------------------------
(* single command *)

\* with open("temp_single_node.yaml", "w") as f: f.write(template)
SingleWriteTemp ==
    /\ mode = "single" /\ pc = "write"
    /\ UNCHANGED parseVars
    /\ tempFiles' = tempFiles \cup {0}
    /\ pc' = "apply"
    /\ UNCHANGED <<mode, nodes, deployIdx, submitted, rejected, exitCode>>
    /\ UNCHANGED <<taskVars, logVars>>

\* run_kubectl_command(["apply", "-f", "temp_single_node.yaml"])
SingleApply(ok) ==
    /\ mode = "single" /\ pc = "apply"
    /\ UNCHANGED parseVars
    /\ IF ok
       THEN /\ submitted' = submitted \cup {0}
            /\ pc' = "remove"
            /\ UNCHANGED <<rejected, exitCode>>
       ELSE /\ rejected' = rejected \cup {0}
            /\ pc' = "exit"
            /\ exitCode' = KubectlExitCode
            /\ UNCHANGED submitted
    /\ UNCHANGED <<mode, nodes, deployIdx, tempFiles>>
    /\ UNCHANGED <<taskVars, logVars>>

\* os.remove("temp_single_node.yaml")
SingleRemoveTemp ==
    /\ mode = "single" /\ pc = "remove"
    /\ UNCHANGED parseVars
    /\ tempFiles' = tempFiles \ {0}
    /\ pc' = "s_wait"
    /\ UNCHANGED <<mode, nodes, deployIdx, submitted, rejected, exitCode>>
    /\ UNCHANGED <<taskVars, logVars>>

\* asyncio.run(wait_for_job_completion("diskspd-single-node")): kubectl wait starts
SingleWaitStart ==
    /\ mode = "single" /\ pc = "s_wait"
    /\ UNCHANGED parseVars
    /\ pc' = "s_waiting"
    /\ UNCHANGED <<orchVars, exitCode, taskVars, logVars>>

SingleLogs_Propagate(ok, out) ==
    /\ mode = "single" /\ pc = "s_logs"
    /\ UNCHANGED parseVars
    /\ calls' = [calls EXCEPT ![0] = Append(@, Call("A", <<"label">>, ok, out))]
    /\ IF ok
       THEN /\ written' = [written EXCEPT ![0] = Append(@, out)]
            /\ exitCode' = 0
       ELSE /\ exitCode' = KubectlExitCode
            /\ UNCHANGED written
    /\ pc' = "exit"
    /\ UNCHANGED <<orchVars, taskVars, result, e, podName>>

SingleLogs_Retry(ok, out) ==
    /\ mode = "single" /\ pc = "s_logs"
    /\ UNCHANGED parseVars
    /\ calls' = [calls EXCEPT ![0] = Append(@, Call("A", <<"label">>, ok, out))]
    /\ IF ok
       THEN written' = [written EXCEPT ![0] = Append(@, out)]
       ELSE UNCHANGED written
    /\ pc' = IF ~ok /\ calls[0] = <<>> THEN "s_logs" ELSE "exit"
    /\ exitCode' = 0
    /\ UNCHANGED <<orchVars, taskVars, result, e, podName>>

\* single: the try/except Exception around run_kubectl_command(["logs", ...])
\* typer.Exit (a RuntimeError) raised by run_kubectl_command is caught there.
SingleLogs(ok, out) ==
    /\ mode = "single" /\ pc = "s_logs"
    /\ UNCHANGED parseVars
    /\ calls' = [calls EXCEPT ![0] = Append(@, Call("A", <<"label">>, ok, out))]
    /\ IF ok
       THEN written' = [written EXCEPT ![0] = Append(@, out)]
       ELSE UNCHANGED written
    /\ pc' = "exit"
    /\ exitCode' = 0
    /\ UNCHANGED <<orchVars, taskVars, result, e, podName>>

\* kubectl wait returns; `if result:` ... `else:` "Job failed or timed out!"
SingleWaitReturn(outcome) ==
    /\ mode = "single" /\ pc = "s_waiting"
    /\ UNCHANGED parseVars
    /\ waitResult' = [waitResult EXCEPT ![0] = WaitForJobCompletion(outcome)]
    /\ IF waitResult'[0] = "True"
       THEN /\ pc' = "s_logs"
            /\ UNCHANGED exitCode
       ELSE /\ pc' = "exit"
            /\ exitCode' = 0
    /\ UNCHANGED <<orchVars, tpc, ready, running, logVars>>

----------------------------------------------------------------------------
(* multi command: deployment loop *)

\* with open(f"temp_node_{i}.yaml", "w") as f: f.write(node_template)
MultiWriteTemp ==
    /\ mode = "multi" /\ pc = "write"
    /\ UNCHANGED parseVars
    /\ tempFiles' = tempFiles \cup {deployIdx}
    /\ pc' = "apply"
    /\ UNCHANGED <<mode, nodes, deployIdx, submitted, rejected, exitCode>>
    /\ UNCHANGED <<taskVars, logVars>>

MultiApply_Continue(ok) ==
    /\ mode = "multi" /\ pc = "apply"
    /\ UNCHANGED parseVars
    /\ IF ok
       THEN /\ submitted' = submitted \cup {deployIdx}
            /\ UNCHANGED rejected
       ELSE /\ rejected' = rejected \cup {deployIdx}
            /\ UNCHANGED submitted
    /\ pc' = "remove"
    /\ UNCHANGED <<mode, nodes, deployIdx, tempFiles, exitCode>>
    /\ UNCHANGED <<taskVars, logVars>>

\* run_kubectl_command(["apply", "-f", f"temp_node_{i}.yaml"])
MultiApply(ok) ==
    /\ mode = "multi" /\ pc = "apply"
    /\ UNCHANGED parseVars
    /\ IF ok
       THEN /\ submitted' = submitted \cup {deployIdx}
            /\ pc' = "remove"
            /\ UNCHANGED <<rejected, exitCode>>
       ELSE /\ rejected' = rejected \cup {deployIdx}
            /\ pc' = "exit"
            /\ exitCode' = KubectlExitCode
            /\ UNCHANGED submitted
    /\ UNCHANGED <<mode, nodes, deployIdx, tempFiles>>
    /\ UNCHANGED <<taskVars, logVars>>

MultiRemoveTemp_SpawnEarly ==
    /\ mode = "multi" /\ pc = "remove"
    /\ UNCHANGED parseVars
    /\ tempFiles' = tempFiles \ {deployIdx}
    /\ pc' = "spawn"
    /\ UNCHANGED deployIdx
    /\ UNCHANGED <<mode, nodes, submitted, rejected, exitCode>>
    /\ UNCHANGED <<taskVars, logVars>>

\* os.remove(f"temp_node_{i}.yaml"); next iteration of `for i in range(1, nodes + 1)`
MultiRemoveTemp ==
    /\ mode = "multi" /\ pc = "remove"
    /\ UNCHANGED parseVars
    /\ tempFiles' = tempFiles \ {deployIdx}
    /\ IF deployIdx < nodes
       THEN /\ deployIdx' = deployIdx + 1
            /\ pc' = "write"
       ELSE /\ pc' = "spawn"
            /\ UNCHANGED deployIdx
    /\ UNCHANGED <<mode, nodes, submitted, rejected, exitCode>>
    /\ UNCHANGED <<taskVars, logVars>>

----------------------------------------------------------------------------
(* multi command: process_all_nodes / process_node *)

\* process_all_nodes: tasks.append(asyncio.create_task(process_node(i))) for i in 1..nodes,
\* then `await asyncio.gather(*tasks)` hands the thread to the event loop.
SpawnTasks ==
    /\ mode = "multi" /\ pc = "spawn"
    /\ UNCHANGED parseVars
    /\ tpc' = [i \in Workers |-> IF i \in 1..nodes THEN "created" ELSE tpc[i]]
    /\ ready' = [k \in 1..nodes |-> k]
    /\ pc' = "gather"
    /\ UNCHANGED <<orchVars, exitCode, running, waitResult, logVars>>

\* The event loop starts the first ready task, which runs up to the blocking
\* subprocess.run(["kubectl", "wait", ...]) inside wait_for_job_completion.
WaitStart(i) ==
    /\ pc = "gather" /\ running = {}
    /\ UNCHANGED parseVars
    /\ ready # <<>> /\ Head(ready) = i
    /\ ready' = Tail(ready)
    /\ running' = {i}
    /\ tpc' = [tpc EXCEPT ![i] = "waiting"]
    /\ UNCHANGED <<orchVars, pc, exitCode, waitResult, logVars>>

\* kubectl wait returns; process_node tests the result.
WaitReturn(i, outcome) ==
    /\ pc = "gather" /\ running = {i} /\ tpc[i] = "waiting"
    /\ UNCHANGED parseVars
    /\ waitResult' = [waitResult EXCEPT ![i] = WaitForJobCompletion(outcome)]
    /\ tpc' = [tpc EXCEPT ![i] = ProcessNodeNext(waitResult'[i])]
    /\ running' = IF tpc'[i] = "finished" THEN {} ELSE {i}
    /\ UNCHANGED <<orchVars, pc, exitCode, ready, logVars>>

\* asyncio.gather returns once every task is done; multi prints and returns.
GatherDone ==
    /\ pc = "gather" /\ running = {} /\ ready = <<>>
    /\ UNCHANGED parseVars
    /\ pc' = "exit"
    /\ exitCode' = 0
    /\ UNCHANGED <<orchVars, taskVars, logVars>>

----------------------------------------------------------------------------
(* capture_logs *)

\* The coroutine returns: the task is done and the thread goes back to the loop.
Finish(i) ==
    /\ tpc' = [tpc EXCEPT ![i] = "finished"]
    /\ running' = {}

WriteArtifact_SharedPath(i, text) == written' = [written EXCEPT ![1] = Append(@, text)]

\* with open(output_file, "w") as f: f.write(text)
WriteArtifact(i, text) == written' = [written EXCEPT ![i] = Append(@, text)]

\* Strategy A: kubectl logs -l node-test=node-<i> --tail=500
CaptureA(i, ok, out) ==
    /\ pc = "gather" /\ running = {i} /\ tpc[i] = "A"
    /\ UNCHANGED parseVars
    /\ calls' = [calls EXCEPT ![i] = Append(@, Call("A", <<"label">>, ok, out))]
    /\ IF ~ok
       THEN /\ e' = [e EXCEPT ![i] = out]
            /\ tpc' = [tpc EXCEPT ![i] = "C1"]
            /\ UNCHANGED <<result, written, running>>
       ELSE /\ result' = [result EXCEPT ![i] = out]
            /\ UNCHANGED e
            /\ IF IsBlank(out)
               THEN /\ tpc' = [tpc EXCEPT ![i] = "B1"]
                    /\ UNCHANGED <<written, running>>
               ELSE /\ WriteArtifact(i, out)
                    /\ Finish(i)
    /\ UNCHANGED <<orchVars, pc, exitCode, ready, waitResult, podName>>

\* Strategy B, first call: kubectl get pods -l node-test=node-<i> -o name
CaptureB1(i, ok, out) ==
    /\ pc = "gather" /\ running = {i} /\ tpc[i] = "B1"
    /\ UNCHANGED parseVars
    /\ calls' = [calls EXCEPT ![i] = Append(@, Call("B1", <<"label">>, ok, out))]
    /\ IF ~ok
       THEN /\ e' = [e EXCEPT ![i] = out]
            /\ tpc' = [tpc EXCEPT ![i] = "C1"]
            /\ UNCHANGED <<podName, written, running>>
       ELSE /\ UNCHANGED e
            /\ IF AfterPodList(out) = "write"
               THEN /\ WriteArtifact(i, result[i])
                    /\ Finish(i)
                    /\ UNCHANGED podName
               ELSE /\ podName' = [podName EXCEPT ![i] = FirstPod(out)]
                    /\ tpc' = [tpc EXCEPT ![i] = AfterPodList(out)]
                    /\ UNCHANGED <<written, running>>
    /\ UNCHANGED <<orchVars, pc, exitCode, ready, waitResult, result>>

CaptureB2_Stale(i, ok, out) ==
    /\ pc = "gather" /\ running = {i} /\ tpc[i] = "B2"
    /\ UNCHANGED parseVars
    /\ calls' = [calls EXCEPT ![i] = Append(@, Call("B2", podName[i], ok, out))]
    /\ IF ~ok
       THEN /\ e' = [e EXCEPT ![i] = out]
            /\ tpc' = [tpc EXCEPT ![i] = "C1"]
            /\ UNCHANGED <<result, written, running>>
       ELSE /\ UNCHANGED <<e, result>>
            /\ WriteArtifact(i, result[i])
            /\ Finish(i)
    /\ UNCHANGED <<orchVars, pc, exitCode, ready, waitResult, podName>>

\* Strategy B, second call: kubectl logs <pod_name> --tail=500
CaptureB2(i, ok, out) ==
    /\ pc = "gather" /\ running = {i} /\ tpc[i] = "B2"
    /\ UNCHANGED parseVars
    /\ calls' = [calls EXCEPT ![i] = Append(@, Call("B2", podName[i], ok, out))]
    /\ IF ~ok
       THEN /\ e' = [e EXCEPT ![i] = out]
            /\ tpc' = [tpc EXCEPT ![i] = "C1"]
            /\ UNCHANGED <<result, written, running>>
       ELSE /\ UNCHANGED e
            /\ result' = [result EXCEPT ![i] = out]
            /\ WriteArtifact(i, out)
            /\ Finish(i)
    /\ UNCHANGED <<orchVars, pc, exitCode, ready, waitResult, podName>>

\* Strategy C, first call (in the except handler):
\* kubectl get pods --selector=job-name=diskspd-node-<i> -o name
CaptureC1(i, ok, out) ==
    /\ pc = "gather" /\ running = {i} /\ tpc[i] = "C1"
    /\ UNCHANGED parseVars
    /\ calls' = [calls EXCEPT ![i] = Append(@, Call("C1", <<"job-name">>, ok, out))]
    /\ IF ~ok
       THEN /\ WriteArtifact(i, Diagnostic(i, e[i], out))
            /\ Finish(i)
            /\ UNCHANGED podName
       ELSE IF IsBlank(out)
            THEN /\ Finish(i)
                 /\ UNCHANGED <<podName, written>>
            ELSE /\ podName' = [podName EXCEPT ![i] = FirstPod(out)]
                 /\ tpc' = [tpc EXCEPT ![i] = "C2"]
                 /\ UNCHANGED <<written, running>>
    /\ UNCHANGED <<orchVars, pc, exitCode, ready, waitResult, result, e>>

\* Strategy C, second call: kubectl logs <pod_name>
CaptureC2(i, ok, out) ==
    /\ pc = "gather" /\ running = {i} /\ tpc[i] = "C2"
    /\ UNCHANGED parseVars
    /\ calls' = [calls EXCEPT ![i] = Append(@, Call("C2", podName[i], ok, out))]
    /\ IF ~ok
       THEN WriteArtifact(i, Diagnostic(i, e[i], out))
       ELSE WriteArtifact(i, out)
    /\ Finish(i)
    /\ UNCHANGED <<orchVars, pc, exitCode, ready, waitResult, result, e, podName>>

\* Result of a kubectl logs call: stdout on success, stderr on failure.
LogResults == ({TRUE} \X LogOutputs) \cup ({FALSE} \X Stderrs)

\* Result of a kubectl get pods call.
PodResults == ({TRUE} \X PodOutputs) \cup ({FALSE} \X Stderrs)

\* Every step worker i's process_node task can take.
ProcessNodeStep(i) ==
    \/ WaitStart(i)
    \/ \E o \in WaitOutcomes : WaitReturn(i, o)
    \/ \E r \in LogResults : CaptureA(i, r[1], r[2])
    \/ \E r \in PodResults : CaptureB1(i, r[1], r[2])
    \/ \E r \in LogResults : CaptureB2(i, r[1], r[2])
    \/ \E r \in PodResults : CaptureC1(i, r[1], r[2])
    \/ \E r \in LogResults : CaptureC2(i, r[1], r[2])

----------------------------------------------------------------------------
Next ==
    \/ SingleWriteTemp
    \/ \E ok \in BOOLEAN : SingleApply(ok)
    \/ SingleRemoveTemp
    \/ SingleWaitStart
    \/ \E o \in WaitOutcomes : SingleWaitReturn(o)
    \/ \E r \in LogResults : SingleLogs(r[1], r[2])
    \/ MultiWriteTemp
    \/ \E ok \in BOOLEAN : MultiApply(ok)
    \/ MultiRemoveTemp
    \/ SpawnTasks
    \/ \E i \in 1..MaxNodes : ProcessNodeStep(i)
    \/ GatherDone

Spec == Init /\ [][Next]_vars

----------------------------------------------------------------------------
(* Vocabulary of the properties, read off the recorded calls *)

Cmds(i) == {calls[i][k].cmd : k \in DOMAIN calls[i]}

\* Text consisting of whitespace only (or of nothing).
OnlyWhitespace(s) == \A k \in DOMAIN s : s[k] \in {" ", "\n"}

\* capture_logs was entered for worker i and has returned.
Retrieved(i) == tpc[i] = "finished" /\ calls[i] # <<>>

LastCall(i) == calls[i][Len(calls[i])]

\* Index of the last successful `kubectl logs` call of worker i (0 if none).
LastOkLog(i) ==
    LET S == {k \in DOMAIN calls[i] :
                 calls[i][k].ok /\ calls[i][k].cmd \in {"A", "B2", "C2"}}
    IN  IF S = {} THEN 0 ELSE CHOOSE k \in S : \A m \in S : m <= k

IsDiagnosticText(c) == c # <<>> /\ c[1] = "Failed to capture logs for node "

----------------------------------------------------------------------------
\* C1: whenever capture_logs has returned for a worker, exactly one artifact
\* file node-<i>.txt exists for it, whatever the outcomes of its control-plane
\* calls; after a multi-node run in which every worker was retrieved the
\* number of artifact files equals the number of workers.
C1_OneArtifactPerWorker ==
    /\ \A i \in 1..nodes : Retrieved(i) => Len(written[i]) = 1
    /\ (mode = "multi" /\ pc = "exit" /\ \A i \in 1..nodes : waitResult[i] = "True")
          => Cardinality({i \in 1..nodes : written[i] # <<>>}) = nodes

C3_SiblingsProgress ==
    \A i, j \in 1..nodes :
       (i # j /\ tpc[i] = "waiting" /\ tpc[j] \notin {"none", "finished"})
          => ENABLED ProcessNodeStep(j)

\* C4: no transient template file exists when the command ends, whether the
\* submission was accepted or rejected.
C4_TempFilesDeleted == pc = "exit" => tempFiles = {}

\* C5 as stated: when a submission is rejected, every other worker is still
\* deployed and waited on.
C5_OnlyRejectedWorkerEnds ==
    (mode = "multi" /\ pc = "exit")
       => \A i \in rejected : \A j \in (1..nodes) \ {i} :
             j \in submitted /\ waitResult[j] # "none"

\* C5 (amended): when the submission of worker i is rejected the whole command
\* ends with status 1: workers after i are never deployed and no worker, not
\* even the deployed 1..i-1, is waited on or has its logs retrieved.
C5_RejectionEndsCommand ==
    (mode = "multi" /\ rejected # {})
       => /\ pc = "exit" /\ exitCode = 1
          /\ \E i \in 1..nodes : rejected = {i} /\ submitted = 1..(i - 1)
          /\ \A j \in 1..nodes :
                tpc[j] = "none" /\ waitResult[j] = "none"
                   /\ calls[j] = <<>> /\ written[j] = <<>>

C5_Witness == mode = "multi" /\ nodes >= 2 /\ rejected = {2} /\ submitted = {1}

\* C6: the command ends with a non-zero status exactly when a job submission
\* was rejected; a wait step that timed out is a returned value and the
\* command that saw it ends with status 0.
C6_ExitStatus ==
    /\ exitCode \in {0, 1}
    /\ pc = "exit" => (exitCode # 0 <=> rejected # {})
    /\ (pc = "exit" /\ \E i \in Workers : waitResult[i] = "False") => exitCode = 0
    /\ \A i \in Workers : waitResult[i] \in {"none", "True", "False"}

C6_Witness ==
    pc = "exit" /\ exitCode = 0 /\ \E i \in Workers : waitResult[i] = "False"

\* C7 as stated: an artifact is never written with empty content.
C7_NoEmptyArtifact ==
    \A i \in 1..nodes : \A k \in DOMAIN written[i] : written[i][k] # <<>>

\* C7 (amended): every artifact holds the diagnostic placeholder when the
\* last call of the retrieval failed, and otherwise the output, empty or not,
\* of the last `kubectl logs` call that succeeded.
C7_ArtifactContent ==
    \A i \in 1..nodes : \A k \in DOMAIN written[i] :
       IF ~LastCall(i).ok
       THEN IsDiagnosticText(written[i][k])
       ELSE LastOkLog(i) # 0 /\ written[i][k] = calls[i][LastOkLog(i)].out

C7_Witness ==
    \E i \in 1..nodes : written[i] = << <<>> >> /\ "B2" \in Cmds(i)

\* C8: Strategy B is attempted exactly when Strategy A's label query succeeded
\* with empty output; when A's output is non-empty no further call is made and
\* A's output is the artifact content.
C8_StrategyB ==
    \A i \in 1..nodes :
       LET aEmpty == calls[i] # <<>> /\ calls[i][1].ok /\ OnlyWhitespace(calls[i][1].out)
           aText == calls[i] # <<>> /\ calls[i][1].ok /\ ~OnlyWhitespace(calls[i][1].out)
       IN  /\ calls[i] # <<>> => calls[i][1].cmd = "A"
           /\ "B1" \in Cmds(i) => aEmpty
           /\ (aEmpty /\ tpc[i] # "B1") => "B1" \in Cmds(i)
           /\ "B2" \in Cmds(i) => "B1" \in Cmds(i)
           /\ aText => /\ Len(calls[i]) = 1
                       /\ tpc[i] = "finished"
                       /\ written[i] = <<calls[i][1].out>>

C8_Witness ==
    \E i \in 1..nodes :
       /\ tpc[i] = "finished"
       /\ "B2" \in Cmds(i)
       /\ calls[i][1].out = <<"\n">>

\* C9: Strategy C is attempted only after a call of Strategy A or B returned an
\* error, never because their output was empty, and at most once per worker.
C9_StrategyC ==
    \A i \in 1..nodes :
       /\ \A k \in DOMAIN calls[i] :
             calls[i][k].cmd \in {"C1", "C2"}
                => \E m \in 1..(k - 1) :
                      ~calls[i][m].ok /\ calls[i][m].cmd \in {"A", "B1", "B2"}
       /\ \A c \in {"C1", "C2"} :
             Cardinality({k \in DOMAIN calls[i] : calls[i][k].cmd = c}) <= 1

C9_Witness ==
    \E i \in 1..nodes :
       /\ tpc[i] = "finished"
       /\ "C2" \in Cmds(i)
       /\ calls[i][1].ok

\* C10: when the retrieval ends with Strategy C failing, the artifact is the
\* diagnostic made of the worker index, the error text of the strategy (A or
\* B) that failed before C, and the error text of C.
C10_DiagnosticContent ==
    \A i \in 1..nodes :
       (Retrieved(i) /\ ~LastCall(i).ok)
          => LET kC == CHOOSE k \in DOMAIN calls[i] : calls[i][k].cmd = "C1"
                 prev == calls[i][kC - 1]
             IN  /\ LastCall(i).cmd \in {"C1", "C2"}
                 /\ kC > 1
                 /\ ~prev.ok
                 /\ prev.cmd \in {"A", "B1", "B2"}
                 /\ written[i] =
                       << <<"Failed to capture logs for node ", ToString(i), ".",
                            "\n", "Error: ">> \o prev.out
                          \o <<"\n", "Second error: ">> \o LastCall(i).out >>

C10_Witness ==
    \E i, j \in 1..nodes :
       /\ Retrieved(i) /\ ~LastCall(i).ok /\ Len(calls[i]) = 2
       /\ calls[i][1].out # calls[i][2].out
       /\ Retrieved(j) /\ ~LastCall(j).ok /\ calls[j][1].ok
       /\ "B1" \in Cmds(j)

\* C11: each artifact file node-<i>.txt is written at most once, only while
\* worker i's own sequence holds the thread, and once written its content never
\* changes.
C11_WriteOnce ==
    [][\A i \in 1..MaxNodes :
          written'[i] # written[i]
             => /\ written[i] = <<>>
                /\ Len(written'[i]) = 1
                /\ running = {i}
                /\ i \in 1..nodes]_vars

C11_Witness ==
    /\ mode = "multi" /\ nodes >= 2 /\ pc = "exit"
    /\ \A i \in 1..nodes : Len(written[i]) = 1

\* C12: in single-node mode one job is deployed, no task is created (wait and
\* retrieval run inline), and the retrieval is one label query: no Strategy B or
\* C call, and no second call when the query fails or the wait times out.
C12_SingleInline ==
    mode = "single"
       => /\ submitted \subseteq {0}
          /\ \A i \in 1..MaxNodes :
                tpc[i] = "none" /\ calls[i] = <<>> /\ written[i] = <<>>
          /\ ready = <<>> /\ running = {}
          /\ Len(calls[0]) <= 1
          /\ \A k \in DOMAIN calls[0] :
                calls[0][k].cmd = "A" /\ calls[0][k].target = <<"label">>
          /\ waitResult[0] # "True" => calls[0] = <<>>
          /\ (pc = "exit" /\ waitResult[0] = "True") => Len(calls[0]) = 1
          /\ written[0] = IF calls[0] # <<>> /\ calls[0][1].ok
                          THEN <<calls[0][1].out>> ELSE <<>>

C12_Witness ==
    /\ mode = "single" /\ pc = "exit"
    /\ calls[0] # <<>> /\ ~calls[0][1].ok

----------------------------------------------------------------------------
(***************************************************************************)
(* parse_results.py: the Report Grammar Extractor.                         *)
(*                                                                         *)
(* A report is a sequence of lines; `nl` tells whether the last line ends  *)
(* with a newline.  A line has a kind (the literal text a pattern looks    *)
(* for), a label and the values of its columns; a value is a sequence of   *)
(* characters.  A dict is a sequence of <<key, value>> pairs in insertion  *)
(* order.                                                                  *)
(***************************************************************************)

Line(kind, label, vals) == [kind |-> kind, label |-> label, vals |-> vals]

\* 1024, the divisor of both normalisations
Kib == 1024

Digits == <<"0", "1", "2", "3", "4", "5", "6", "7", "8", "9">>

\* value of one decimal digit character
DigitVal(c) == (CHOOSE k \in DOMAIN Digits : Digits[k] = c) - 1

RECURSIVE DivModKib(_, _, _)
\* int(text) // 1024 and int(text) % 1024, by long division over the digits
DivModKib(ds, q, r) ==
    IF ds = <<>>
    THEN <<q, r>>
    ELSE LET x == r * 10 + DigitVal(Head(ds))
         IN  DivModKib(Tail(ds), q * 10 + x \div Kib, x % Kib)

RECURSIVE IntToDigits(_)
\* str(n) for n >= 0
IntToDigits(n) ==
    IF n < 10 THEN <<Digits[n + 1]>> ELSE IntToDigits(n \div 10) \o <<Digits[(n % 10) + 1]>>

\* dict key lookup
HasKey(d, k) == \E j \in DOMAIN d : d[j][1] = k

Get(d, k) == d[CHOOSE j \in DOMAIN d : d[j][1] = k][2]

Keys(d) == [j \in DOMAIN d |-> d[j][1]]

\* d[k] = v
Put(d, k, v) ==
    IF HasKey(d, k)
    THEN [j \in DOMAIN d |-> IF d[j][1] = k THEN <<k, v>> ELSE d[j]]
    ELSE Append(d, <<k, v>>)

RECURSIVE Update(_, _)
\* d.update(u)
Update(d, u) == IF u = <<>> THEN d ELSE Update(Put(d, Head(u)[1], Head(u)[2]), Tail(u))

\* Index of the first line after position `from` among the matching lines
\* `hits`, 0 if none.
FirstAfter(c, from, hits) ==
    LET S == {j \in hits \cap DOMAIN c.lines : j > from}
    IN  IF S = {} THEN 0 ELSE CHOOSE j \in S : \A m \in S : j <= m

\* re.search of a one-line pattern: index of the first line of that kind
Search(c, kind) == FirstAfter(c, 0, {j \in DOMAIN c.lines : c.lines[j].kind = kind})

NotAvailable == <<"N", "/", "A">>

ParseCommandLine_Empty(c) ==
    IF Search(c, "cmd") # 0 THEN c.lines[Search(c, "cmd")].vals[1] ELSE <<>>

\* parse_command_line
ParseCommandLine(c) ==
    IF Search(c, "cmd") # 0 THEN c.lines[Search(c, "cmd")].vals[1] ELSE NotAvailable

\* parse_system_info
ParseSystemInfo(c) ==
    << <<"processor_count",
         IF Search(c, "proc") # 0 THEN c.lines[Search(c, "proc")].vals[1] ELSE NotAvailable>>,
       <<"caching_options",
         IF Search(c, "cache") # 0 THEN c.lines[Search(c, "cache")].vals[1] ELSE NotAvailable>> >>

BlockSizeK_Bytes(ds) == IntToDigits(DivModKib(ds, 0, 0)[1] * Kib + DivModKib(ds, 0, 0)[2])

\* str(block_size_bytes // 1024)
BlockSizeK(ds) == IntToDigits(DivModKib(ds, 0, 0)[1])

FileSizeGb_Truncate(ds) ==
    LET q1 == DivModKib(ds, 0, 0)
        q2 == q1[1] \div Kib
        q3 == q2 \div Kib
        h == (100 * (q2 % Kib)) \div Kib
    IN  IntToDigits(q3) \o <<".">> \o <<Digits[(h \div 10) + 1], Digits[(h % 10) + 1]>>

\* f"{file_size_bytes / (1024 * 1024 * 1024):.2f}": the quotient is exact in
\* binary floating point below 2^53 and is printed rounded half-to-even.
FileSizeGb(ds) ==
    LET q1 == DivModKib(ds, 0, 0)
        r1 == q1[2]
        q2 == q1[1] \div Kib
        r2 == q1[1] % Kib
        q3 == q2 \div Kib
        r3 == q2 % Kib
        gib == Kib * Kib * Kib
        a == 100 * r3
        num == (a % Kib) * Kib * Kib + 100 * r2 * Kib + 100 * r1
        h == a \div Kib + num \div gib
        rem == num % gib
        down == q3 * 100 + h
        hundredths ==
            IF rem > gib \div 2 THEN down + 1
            ELSE IF rem = gib \div 2 /\ down % 2 = 1 THEN down + 1
            ELSE down
        frac == hundredths % 100
    IN  IntToDigits(hundredths \div 100) \o <<".">>
           \o <<Digits[(frac \div 10) + 1], Digits[(frac % 10) + 1]>>

\* One optional parameter: the pair when the pattern matches, nothing otherwise.
\* What is stored for a captured parameter text.
Convert(key, v) ==
    CASE key = "block_size" -> BlockSizeK(v)
      [] key = "file_size_gb" -> FileSizeGb(v)
      [] OTHER -> v

Param(c, kind, key) ==
    IF Search(c, kind) # 0
    THEN << <<key, Convert(key, c.lines[Search(c, kind)].vals[1])>> >>
    ELSE <<>>

\* parse_input_parameters
ParseInputParameters(c) ==
    Param(c, "dur", "duration")
       \o Param(c, "bs", "block_size")
       \o Param(c, "oio", "outstanding_io")
       \o Param(c, "thr", "threads")
       \o Param(c, "fsize", "file_size_gb")
       \o Param(c, "iotype", "io_type")

CpuKeys == <<"cpu_total_usage", "cpu_user", "cpu_kernel", "cpu_io_wait", "cpu_idle">>

\* The avg line the CPU pattern ends on: the first one after the first
\* "CPU | Usage" header that carries five percentages (`.*?` with re.DOTALL
\* runs over every line in between).
CpuAvgLine(c) ==
    IF Search(c, "cpuhdr") = 0 THEN 0
    ELSE FirstAfter(c, Search(c, "cpuhdr"),
                    {j \in DOMAIN c.lines :
                        c.lines[j].kind = "avg" /\ Len(c.lines[j].vals) >= Len(CpuKeys)})

ParseCpuUsage_Partial(c) ==
    LET h == Search(c, "cpuhdr")
        a == IF h = 0 THEN 0 ELSE FirstAfter(c, h, {j \in DOMAIN c.lines : c.lines[j].kind = "avg"})
    IN  IF a = 0 THEN <<>>
        ELSE LET n == IF Len(c.lines[a].vals) < Len(CpuKeys)
                      THEN Len(c.lines[a].vals) ELSE Len(CpuKeys)
             IN  [j \in 1..n |-> <<CpuKeys[j], c.lines[a].vals[j]>>]

\* parse_cpu_usage
ParseCpuUsage(c) ==
    IF CpuAvgLine(c) # 0
    THEN [j \in DOMAIN CpuKeys |-> <<CpuKeys[j], c.lines[CpuAvgLine(c)].vals[j]>>]
    ELSE <<>>

IoTypes == <<"Total", "Read", "Write">>

\* f"{io_type.lower()}_bytes" and the four other field names
IoKeys(ioType) ==
    CASE ioType = "Total" ->
            <<"total_bytes", "total_ios", "total_mbps", "total_iops", "total_avg_latency">>
      [] ioType = "Read" ->
            <<"read_bytes", "read_ios", "read_mbps", "read_iops", "read_avg_latency">>
      [] ioType = "Write" ->
            <<"write_bytes", "write_ios", "write_mbps", "write_iops", "write_avg_latency">>

\* The total row the I/O pattern ends on: the first five-column "total:" row
\* after the first "<io_type> IO" header, whatever lies in between.
IoTotalRow(c, ioType) ==
    LET h == FirstAfter(c, 0, {j \in DOMAIN c.lines :
                                  c.lines[j].kind = "iohdr" /\ c.lines[j].label = ioType})
    IN  IF h = 0 THEN 0
        ELSE FirstAfter(c, h, {j \in DOMAIN c.lines :
                                  c.lines[j].kind = "total" /\ Len(c.lines[j].vals) >= 5})

\* parse_io_stats
ParseIoStats(c, ioType) ==
    IF IoTotalRow(c, ioType) # 0
    THEN [j \in 1..5 |-> <<IoKeys(ioType)[j], c.lines[IoTotalRow(c, ioType)].vals[j]>>]
    ELSE <<>>

Percentiles == <<"min", "50th", "95th", "99th", "max">>

\* f"latency_{percentile}"
LatencyKey(p) ==
    CASE p = "min" -> "latency_min"
      [] p = "50th" -> "latency_50th"
      [] p = "95th" -> "latency_95th"
      [] p = "99th" -> "latency_99th"
      [] p = "max" -> "latency_max"

\* re.search(r"%-ile.*?max \|.*?\n", content, re.DOTALL): <<first, last>> line
\* of the match, <<0, 0>> when there is none.  The match runs from the first
\* "%-ile" header to the first later "max |" row that is followed by a newline.
LatencySection(c) ==
    LET h == Search(c, "pctl_hdr")
        S == {j \in DOMAIN c.lines :
                 /\ j > h
                 /\ c.lines[j].kind = "pctl" /\ c.lines[j].label = "max"
                 /\ (j < Len(c.lines) \/ c.nl)}
    IN  IF h = 0 \/ S = {} THEN <<0, 0>>
        ELSE <<h, CHOOSE j \in S : \A m \in S : j <= m>>

\* re.search(pattern, section_text) for one percentile: the row's line, 0 if none
LatencyRow(c, sec, p) ==
    LET S == {j \in sec[1]..sec[2] : c.lines[j].kind = "pctl" /\ c.lines[j].label = p}
    IN  IF S = {} THEN 0 ELSE CHOOSE j \in S : \A m \in S : j <= m

RECURSIVE LatencyLoop_Break(_, _, _)
LatencyLoop_Break(c, sec, ps) ==
    IF ps = <<>> \/ LatencyRow(c, sec, Head(ps)) = 0 THEN <<>>
    ELSE << <<LatencyKey(Head(ps)), c.lines[LatencyRow(c, sec, Head(ps))].vals[1]>> >>
            \o LatencyLoop_Break(c, sec, Tail(ps))

RECURSIVE LatencyLoop(_, _, _)
\* for percentile in ["min", "50th", "95th", "99th", "max"]: ...
LatencyLoop(c, sec, ps) ==
    IF ps = <<>> THEN <<>>
    ELSE (IF LatencyRow(c, sec, Head(ps)) # 0
          THEN << <<LatencyKey(Head(ps)), c.lines[LatencyRow(c, sec, Head(ps))].vals[1]>> >>
          ELSE <<>>)
            \o LatencyLoop(c, sec, Tail(ps))

\* parse_latency_percentiles
ParseLatencyPercentiles(c) ==
    IF LatencySection(c) # <<0, 0>>
    THEN LatencyLoop(c, LatencySection(c), Percentiles)
    ELSE <<>>

\* parse_result_file, after the file was read
ParseResultFile(c, benchmarkId, nodeId) ==
    LET r0 == << <<"benchmark_id", benchmarkId>>, <<"node_id", nodeId>> >>
        r1 == Put(r0, "command_line", ParseCommandLine(c))
        r2 == Update(r1, ParseSystemInfo(c))
        r3 == Update(r2, ParseInputParameters(c))
        r4 == Update(r3, ParseCpuUsage(c))
        r5 == Update(r4, ParseIoStats(c, "Total"))
        r6 == Update(r5, ParseIoStats(c, "Read"))
        r7 == Update(r6, ParseIoStats(c, "Write"))
    IN  Update(r7, ParseLatencyPercentiles(c))

----------------------------------------------------------------------------
(* Reports the extractor is applied to *)

\* Longest report made of command-line, system and parameter lines.
MaxGeneralLines == 3

\* Longest report made of CPU table lines.
MaxCpuLines == 3

\* Longest report made of I/O table lines.
MaxIoLines == 4

\* Longest report made of percentile table lines.
MaxLatLines == 6

SeqsUpTo(S, n) == UNION {[1..k -> S] : k \in 0..n}

GeneralLines ==
    { Line("cmd", "", << <<"d", "i", "s", "k", "s", "p", "d">> >>),
      Line("proc", "", << <<"4">> >>),
      Line("cache", "", << <<"o", "f", "f">> >>),
      Line("dur", "", << <<"6", "0">> >>),
      Line("bs", "", << <<"4", "0", "9", "6">> >>),
      Line("bs", "", << <<"5", "0", "0", "0">> >>),
      Line("oio", "", << <<"8">> >>),
      Line("thr", "", << <<"2">> >>),
      Line("fsize", "", << <<"1", "0", "7", "3", "7", "4", "1", "8", "2", "4", "0">> >>),
      Line("fsize", "", << <<"1", "3", "4", "2", "1", "7", "7", "2", "8">> >>),
      Line("fsize", "", << <<"4", "0", "2", "6", "5", "3", "1", "8", "4">> >>),
      Line("iotype", "", << <<"r", "a", "n", "d", "o", "m">> >>) }

CpuLines ==
    { Line("cpuhdr", "", <<>>),
      Line("avg", "", << <<"9">>, <<"5">>, <<"4">>, <<"1">>, <<"0">> >>),
      Line("avg", "", << <<"9">>, <<"5">>, <<"4">>, <<"1">> >>) }

IoLines ==
    { Line("iohdr", "Total", <<>>),
      Line("iohdr", "Read", <<>>),
      Line("iohdr", "Write", <<>>),
      Line("total", "", << <<"1">>, <<"2">>, <<"3">>, <<"4">>, <<"5">> >>),
      Line("total", "", << <<"6">>, <<"7">>, <<"8">>, <<"9">>, <<"0">> >>),
      Line("total", "", << <<"1">>, <<"2">>, <<"3">>, <<"4">> >>) }

RECURSIVE DistinctSeqsUpTo(_, _)
\* Sequences of at most n pairwise different elements of S.
DistinctSeqsUpTo(S, n) ==
    IF n = 0 THEN {<<>>}
    ELSE LET P == DistinctSeqsUpTo(S, n - 1)
         IN  P \cup UNION { { Append(t, x) : x \in S \ {t[j] : j \in DOMAIN t} } :
                              t \in {u \in P : Len(u) = n - 1} }

LatLines ==
    { Line("pctl_hdr", "", <<>>), Line("pctl", "max", << <<"9">> >>) }
       \cup { Line("pctl", Percentiles[j], << <<Digits[j + 1]>> >>) : j \in DOMAIN Percentiles }

Report(lines, nl) == [lines |-> lines, nl |-> nl]

Reports ==
    { Report(ls, TRUE) : ls \in SeqsUpTo(GeneralLines, MaxGeneralLines) }
       \cup { Report(ls, TRUE) : ls \in SeqsUpTo(CpuLines, MaxCpuLines) }
       \cup { Report(ls, TRUE) : ls \in SeqsUpTo(IoLines, MaxIoLines) }
       \cup { Report(ls, TRUE) : ls \in DistinctSeqsUpTo(LatLines, MaxLatLines) }
       \cup { Report(ls, FALSE) :
                 ls \in { t \in DistinctSeqsUpTo(LatLines, MaxLatLines) :
                            t # <<>> /\ t[Len(t)].label = "max" } }

\* cli.py is not running.
CliIdle ==
    /\ mode = "none"
    /\ nodes = 1
    /\ pc = "idle"
    /\ deployIdx = 0
    /\ tempFiles = {}
    /\ submitted = {}
    /\ rejected = {}
    /\ exitCode = 0
    /\ tpc = [i \in Workers |-> "none"]
    /\ ready = <<>>
    /\ running = {}
    /\ waitResult = [i \in Workers |-> "none"]
    /\ calls = [i \in Workers |-> <<>>]
    /\ result = [i \in Workers |-> <<>>]
    /\ e = [i \in Workers |-> <<>>]
    /\ podName = [i \in Workers |-> <<>>]
    /\ written = [i \in Workers |-> <<>>]

ExtractInit ==
    /\ CliIdle
    /\ entry = "parse_result_file"
    /\ ppc = "call"
    /\ content \in Reports
    /\ record = <<>>
    /\ files = <<>>
    /\ fileIdx = 0
    /\ allResults = <<>>
    /\ csvFiles = <<>>

\* parse_result_file(file_path, "benchmark-01", "1") on a readable file
ParseResultFileCall ==
    /\ entry = "parse_result_file" /\ ppc = "call"
    /\ record' = ParseResultFile(content, <<"benchmark-01">>, <<"1">>)
    /\ ppc' = "returned"
    /\ UNCHANGED <<cliVars, entry, content, files, fileIdx, allResults, csvFiles>>

ExtractNext == ParseResultFileCall

ExtractSpec == ExtractInit /\ [][ExtractNext]_vars

----------------------------------------------------------------------------
(* Vocabulary of the extractor properties *)

Returned == entry = "parse_result_file" /\ ppc = "returned"

\* Some line of the report has this kind.
HasLine(kind) == \E j \in DOMAIN content.lines : content.lines[j].kind = kind

\* The text captured from the first line of this kind.
FirstText(kind) ==
    content.lines[CHOOSE j \in DOMAIN content.lines :
                     /\ content.lines[j].kind = kind
                     /\ \A m \in 1..(j - 1) : content.lines[m].kind # kind].vals[1]

\* Fields that are set from one one-line pattern and left out when it fails.
OptionalFields ==
    { <<"duration", "dur">>, <<"block_size", "bs">>, <<"outstanding_io", "oio">>,
      <<"threads", "thr">>, <<"file_size_gb", "fsize">>, <<"io_type", "iotype">> }

\* Fields set from one one-line pattern whatever its outcome.
PlaceholderFields ==
    { <<"command_line", "cmd">>, <<"processor_count", "proc">>,
      <<"caching_options", "cache">> }

\* C13 as stated: the record has benchmark_id and node_id, and any other field
\* only when the pattern of that field matched the report.
C13_AbsentWhenUnmatched ==
    Returned
       => /\ HasKey(record, "benchmark_id") /\ HasKey(record, "node_id")
          /\ \A f \in OptionalFields \cup PlaceholderFields :
                HasKey(record, f[1]) => HasLine(f[2])

\* C13 (amended): the record always starts with benchmark_id, node_id,
\* command_line, processor_count and caching_options, the last three holding
\* "N/A" when their pattern did not match; each of the remaining one-line
\* fields is present exactly when its pattern matched.
C13_PlaceholderOrAbsent ==
    Returned
       => /\ Len(record) >= 5
          /\ SubSeq(Keys(record), 1, 5) =
                <<"benchmark_id", "node_id", "command_line", "processor_count",
                  "caching_options">>
          /\ \A f \in PlaceholderFields :
                Get(record, f[1]) =
                   IF HasLine(f[2]) THEN FirstText(f[2]) ELSE <<"N", "/", "A">>
          /\ \A f \in OptionalFields : HasKey(record, f[1]) <=> HasLine(f[2])
          /\ \A j, k \in DOMAIN record : record[j][1] = record[k][1] => j = k

C13_Witness ==
    /\ Returned
    /\ ~HasLine("cmd") /\ HasLine("proc") /\ HasLine("dur") /\ ~HasLine("bs")

\* C14: each category takes its five fields together or not at all, from a
\* five-column total row of its own section (the lines between its header and
\* the next category header).
C14_OwnSection ==
    Returned
       => \A t \in DOMAIN IoTypes :
             LET ks == IoKeys(IoTypes[t])
                 L == content.lines
                 Own(h, r) ==
                    /\ h < r
                    /\ L[h].kind = "iohdr" /\ L[h].label = IoTypes[t]
                    /\ L[r].kind = "total" /\ Len(L[r].vals) >= 5
                    /\ \A m \in (h + 1)..(r - 1) : L[m].kind # "iohdr"
             IN  /\ \A a, b \in 1..5 : HasKey(record, ks[a]) <=> HasKey(record, ks[b])
                 /\ HasKey(record, ks[1])
                       => \E h, r \in DOMAIN L :
                             /\ Own(h, r)
                             /\ \A a \in 1..5 : Get(record, ks[a]) = L[r].vals[a]

\* C15 as stated: every row of the percentile table (the lines after the
\* %-ile header) is matched on its own, so latency_<row> is present for
\* exactly the rows present, whether or not the max row is among them.
C15_RowsIndependent ==
    Returned
       => LET L == content.lines IN
          \A h \in DOMAIN L :
             (L[h].kind = "pctl_hdr" /\ \A m \in 1..(h - 1) : L[m].kind # "pctl_hdr")
                => \A p \in DOMAIN Percentiles :
                      HasKey(record, LatencyKey(Percentiles[p]))
                         <=> \E j \in (h + 1)..Len(L) :
                                L[j].kind = "pctl" /\ L[j].label = Percentiles[p]

\* C15 (amended): the rows are looked for inside the section that runs from
\* the first %-ile header to the first later max row that is followed by a
\* newline.  Without such a section no latency field is captured; with it,
\* latency_<row> is present for exactly the rows the section holds and carries
\* the value of the first such row.
C15_RowsWithinSection ==
    Returned
       => LET L == content.lines
              IsRow(j, p) == L[j].kind = "pctl" /\ L[j].label = p
              H == {h \in DOMAIN L : L[h].kind = "pctl_hdr"}
              Ends(h) == {m \in DOMAIN L : m > h /\ IsRow(m, "max")
                                             /\ (m < Len(L) \/ content.nl)}
          IN  IF H = {} \/ \A h \in H : Ends(h) = {}
              THEN \A p \in DOMAIN Percentiles :
                      ~HasKey(record, LatencyKey(Percentiles[p]))
              ELSE \E h \in H : \E m \in Ends(h) :
                      /\ \A g \in H : h <= g
                      /\ \A n \in Ends(h) : m <= n
                      /\ \A p \in DOMAIN Percentiles :
                            LET R == {j \in h..m : IsRow(j, Percentiles[p])}
                                k == LatencyKey(Percentiles[p])
                            IN  /\ HasKey(record, k) <=> R # {}
                                /\ R # {} => \E j \in R :
                                                /\ \A i \in R : j <= i
                                                /\ Get(record, k) = L[j].vals[1]

C15_Witness ==
    /\ Returned
    /\ HasKey(record, "latency_max") /\ HasKey(record, "latency_50th")
    /\ ~HasKey(record, "latency_min") /\ ~HasKey(record, "latency_99th")

\* C16: the record has all five cpu_* fields or none of them, and none when no
\* avg line of the report carries five percentages.
C16_CpuAllOrNothing ==
    Returned
       => LET L == content.lines
              cpu == <<"cpu_total_usage", "cpu_user", "cpu_kernel", "cpu_io_wait",
                       "cpu_idle">>
              Full == {j \in DOMAIN L : L[j].kind = "avg" /\ Len(L[j].vals) >= 5}
          IN  /\ \A a, b \in 1..5 : HasKey(record, cpu[a]) <=> HasKey(record, cpu[b])
              /\ Full = {} => \A a \in 1..5 : ~HasKey(record, cpu[a])
              /\ HasKey(record, cpu[1])
                    => \E j \in Full : \A a \in 1..5 : Get(record, cpu[a]) = L[j].vals[a]

C16_Witness ==
    /\ Returned
    /\ \E h, j \in DOMAIN content.lines :
          /\ h < j
          /\ content.lines[h].kind = "cpuhdr"
          /\ content.lines[j].kind = "avg" /\ Len(content.lines[j].vals) = 4
    /\ \A j \in DOMAIN content.lines :
          content.lines[j].kind = "avg" => Len(content.lines[j].vals) = 4
    /\ ~HasKey(record, "cpu_total_usage")

\* C20: block_size is the byte count integer-divided by 1024 (4096 and 5000
\* give 4); file_size_gb is the byte count over 1024^3 with two decimals
\* (10737418240 gives 10.00, 134217728 gives 0.12, 402653184 gives 0.38).
C20_Normalisation ==
    Returned
       => /\ HasLine("bs")
                => /\ FirstText("bs") \in {<<"4", "0", "9", "6">>, <<"5", "0", "0", "0">>}
                   /\ Get(record, "block_size") = <<"4">>
          /\ HasLine("fsize")
                => LET n == FirstText("fsize")
                       gb == Get(record, "file_size_gb")
                   IN  /\ n = <<"1", "0", "7", "3", "7", "4", "1", "8", "2", "4", "0">>
                             => gb = <<"1", "0", ".", "0", "0">>
                       /\ n = <<"1", "3", "4", "2", "1", "7", "7", "2", "8">>
                             => gb = <<"0", ".", "1", "2">>
                       /\ n = <<"4", "0", "2", "6", "5", "3", "1", "8", "4">>
                             => gb = <<"0", ".", "3", "8">>

C20_Witness ==
    /\ Returned
    /\ HasLine("bs") /\ FirstText("bs") = <<"4", "0", "9", "6">>
    /\ HasLine("fsize")
    /\ FirstText("fsize") = <<"1", "0", "7", "3", "7", "4", "1", "8", "2", "4", "0">>

----------------------------------------------------------------------------
(***************************************************************************)
(* parse_results.py: process_benchmark_results and the Record Aggregator.  *)
(***************************************************************************)

\* Most node-*.txt files in the results directory.
MaxFiles == 3

\* Longest `results` list handed to a CSV writer directly.
MaxRecords == 3

\* Texts of the artifacts that are aggregated: a report without any field (the
\* diagnostic placeholder), one with a block size, one with two parameters.
AggReports ==
    { Report(<<>>, TRUE),
      Report(<<Line("bs", "", << <<"4", "0", "9", "6">> >>)>>, TRUE),
      Report(<<Line("dur", "", << <<"6", "0">> >>),
               Line("bs", "", << <<"4", "0", "9", "6">> >>)>>, TRUE) }

BenchmarkIds == {<<"benchmark-01">>, <<"benchmark-02">>}

\* node_file.replace("node-", "").replace(".txt", "") of the k-th file node-<k>.txt
NodeId(k) == IntToDigits(k)

\* The node files found by os.listdir: whether open() succeeds, and the text.
FileLists ==
    UNION { { [k \in 1..n |-> [node |-> NodeId(k), readable |-> f[k][1], content |-> f[k][2]]] :
                 f \in [1..n -> BOOLEAN \X AggReports] } : n \in 0..MaxFiles }

\* Records as parse_result_file builds them.
SampleRecords == { ParseResultFile(c, b, NodeId(1)) : c \in AggReports, b \in BenchmarkIds }

RecordLists == SeqsUpTo(SampleRecords, MaxRecords)

\* get_block_size_dir
GetBlockSizeDir(results) ==
    IF results # <<>> /\ HasKey(results[1], "block_size")
    THEN Get(results[1], "block_size") \o <<"K">>
    ELSE <<"unknown_block_size">>

\* csv.DictWriter._dict_to_list: `wrong_fields = rowdict.keys() - self.fieldnames`
WrongFields(fieldnames, row) ==
    {row[j][1] : j \in DOMAIN row} \ {fieldnames[j] : j \in DOMAIN fieldnames}

\* csv.DictWriter._dict_to_list: (rowdict.get(key, self.restval) for key in self.fieldnames)
DictToList(fieldnames, row) ==
    [j \in DOMAIN fieldnames |->
        IF HasKey(row, fieldnames[j]) THEN Get(row, fieldnames[j]) ELSE <<>>]

RECURSIVE WriteRows(_, _)
\* csv.DictWriter.writerows with the default extrasaction="raise": the rows
\* before the first one that has a field outside fieldnames reach the file,
\* then ValueError is raised.
WriteRows(fieldnames, rows) ==
    IF rows = <<>> THEN [rows |-> <<>>, raised |-> FALSE]
    ELSE IF WrongFields(fieldnames, Head(rows)) # {}
         THEN [rows |-> <<>>, raised |-> TRUE]
         ELSE LET rest == WriteRows(fieldnames, Tail(rows))
              IN  [rows |-> <<DictToList(fieldnames, Head(rows))>> \o rest.rows,
                   raised |-> rest.raised]

\* with open(output_file, 'w', newline='') as csvfile: DictWriter, writeheader, writerows
WriteCsv(dir, name, data) ==
    LET fieldnames == Keys(data[1])
        w == WriteRows(fieldnames, data)
    IN  [dir |-> dir, name |-> name, header |-> fieldnames, rows |-> w.rows,
         raised |-> w.raised]

\* write_summary_csv with output_file=None: the files it leaves, in order
SummaryFiles(results) ==
    IF results = <<>> THEN <<>>
    ELSE LET d == GetBlockSizeDir(results)
         IN  <<WriteCsv(d, <<"benchmark_summary_">> \o d \o <<".csv">>, results)>>

RECURSIVE GroupIds(_, _)
\* keys of the defaultdict, in order of first appearance
GroupIds(results, seen) ==
    IF results = <<>> THEN <<>>
    ELSE LET b == Get(Head(results), "benchmark_id")
         IN  IF b \in seen THEN GroupIds(Tail(results), seen)
             ELSE <<b>> \o GroupIds(Tail(results), seen \cup {b})

\* benchmark_results[benchmark_id]
Group(results, b) == SelectSeq(results, LAMBDA r : Get(r, "benchmark_id") = b)

RECURSIVE SpecificLoop(_, _, _)
\* for benchmark_id, benchmark_data in benchmark_results.items(): ...
SpecificLoop(results, ids, d) ==
    IF ids = <<>> THEN <<>>
    ELSE LET f == WriteCsv(d, <<"benchmark_">> \o Head(ids) \o <<"_">> \o d \o <<".csv">>,
                           Group(results, Head(ids)))
         IN  IF f.raised THEN <<f>> ELSE <<f>> \o SpecificLoop(results, Tail(ids), d)

\* write_benchmark_specific_csvs: the files it leaves, in order
SpecificFiles(results) ==
    IF results = <<>> THEN <<>>
    ELSE SpecificLoop(results, GroupIds(results, {}), GetBlockSizeDir(results))

\* An exception left the function that was writing.
Raised(fs) == fs # <<>> /\ fs[Len(fs)].raised

AggInit ==
    /\ CliIdle
    /\ content = [lines |-> <<>>, nl |-> TRUE]
    /\ record = <<>>
    /\ csvFiles = <<>>
    /\ fileIdx = 0
    /\ \/ /\ entry = "main"
          /\ ppc = "scan"
          /\ files \in FileLists
          /\ allResults = <<>>
       \/ /\ entry = "write_summary_csv"
          /\ ppc = "summary"
          /\ files = <<>>
          /\ allResults \in RecordLists
       \/ /\ entry = "write_benchmark_specific_csvs"
          /\ ppc = "specific"
          /\ files = <<>>
          /\ allResults \in RecordLists

ProcessNodeFile_Abort ==
    /\ entry = "main" /\ ppc = "scan" /\ fileIdx < Len(files)
    /\ LET f == files[fileIdx + 1]
       IN  IF f.readable
           THEN /\ allResults' =
                      Append(allResults, ParseResultFile(f.content, <<"benchmark-01">>, f.node))
                /\ fileIdx' = fileIdx + 1
           ELSE /\ UNCHANGED allResults
                /\ fileIdx' = Len(files)
    /\ UNCHANGED <<cliVars, entry, ppc, content, record, files, csvFiles>>

\* process_benchmark_results: one iteration of `for node_file in node_files`,
\* with its try / except Exception
ProcessNodeFile ==
    /\ entry = "main" /\ ppc = "scan" /\ fileIdx < Len(files)
    /\ LET f == files[fileIdx + 1]
       IN  IF f.readable
           THEN allResults' =
                   Append(allResults, ParseResultFile(f.content, <<"benchmark-01">>, f.node))
           ELSE UNCHANGED allResults
    /\ fileIdx' = fileIdx + 1
    /\ UNCHANGED <<cliVars, entry, ppc, content, record, files, csvFiles>>

\* process_benchmark_results returns all_results; main tests `if results:`
ProcessDone ==
    /\ entry = "main" /\ ppc = "scan" /\ fileIdx = Len(files)
    /\ ppc' = IF allResults # <<>> THEN "summary" ELSE "done"
    /\ UNCHANGED <<cliVars, entry, content, record, files, fileIdx, allResults, csvFiles>>

\* write_summary_csv(results)
WriteSummaryCsv ==
    /\ ppc = "summary"
    /\ csvFiles' = csvFiles \o SummaryFiles(allResults)
    /\ ppc' = IF Raised(SummaryFiles(allResults)) THEN "raised"
              ELSE IF entry = "main" THEN "specific" ELSE "done"
    /\ UNCHANGED <<cliVars, entry, content, record, files, fileIdx, allResults>>

\* write_benchmark_specific_csvs(results)
WriteBenchmarkSpecificCsvs ==
    /\ ppc = "specific"
    /\ csvFiles' = csvFiles \o SpecificFiles(allResults)
    /\ ppc' = IF Raised(SpecificFiles(allResults)) THEN "raised" ELSE "done"
    /\ UNCHANGED <<cliVars, entry, content, record, files, fileIdx, allResults>>

AggNext ==
    \/ ProcessNodeFile
    \/ ProcessDone
    \/ WriteSummaryCsv
    \/ WriteBenchmarkSpecificCsvs

AggSpec == AggInit /\ [][AggNext]_vars

----------------------------------------------------------------------------
(***************************************************************************)
(* Claims about the aggregator                                             *)
(***************************************************************************)

\* The benchmark ids of a record list.
IdsOf(results) == {Get(results[k], "benchmark_id") : k \in DOMAIN results}

\* How many records of a list carry benchmark id b.
CountOf(results, b) ==
    Cardinality({k \in DOMAIN results : Get(results[k], "benchmark_id") = b})

RECURSIVE RowTotal(_)
\* The rows of a list of CSV files, added up.
RowTotal(fs) == IF fs = <<>> THEN 0 ELSE Len(Head(fs).rows) + RowTotal(Tail(fs))

\* The readable files among the first n enumerated, in order.
ReadableUpTo(n) == SelectSeq(SubSeq(files, 1, n), LAMBDA f : f.readable)

\* C17: for every non-empty list of records, also one whose later records
\* have a field the first lacks or lack a field the first has,
\* write_summary_csv returns normally and leaves one summary file whose
\* header is the first record's fields in insertion order, followed by one
\* row per record in input order.
C17_SummaryFile ==
    (entry = "write_summary_csv" /\ ppc # "summary" /\ allResults # <<>>)
       => /\ ppc = "done"
          /\ Len(csvFiles) = 1
          /\ csvFiles[1].header = Keys(allResults[1])
          /\ Len(csvFiles[1].rows) = Len(allResults)
          /\ \A k \in DOMAIN allResults :
                \A j \in DOMAIN csvFiles[1].header :
                   HasKey(allResults[k], csvFiles[1].header[j])
                      => csvFiles[1].rows[k][j] = Get(allResults[k], csvFiles[1].header[j])

\* C18: write_benchmark_specific_csvs returns normally and leaves exactly
\* one file per distinct benchmark_id, holding exactly the records with that
\* id in input order, in the directory named after the first record's
\* block_size (or the sentinel when absent); the row counts of the
\* per-benchmark files sum to the row count of the summary file.
C18_PerBenchmarkFiles ==
    /\ (entry = "write_benchmark_specific_csvs" /\ ppc # "specific" /\ allResults # <<>>)
          => /\ ppc = "done"
             /\ Len(csvFiles) = Cardinality(IdsOf(allResults))
             /\ \A b \in IdsOf(allResults) :
                   \E k \in DOMAIN csvFiles :
                      /\ csvFiles[k].name =
                            <<"benchmark_">> \o b \o <<"_">> \o csvFiles[k].dir \o <<".csv">>
                      /\ Len(csvFiles[k].rows) = CountOf(allResults, b)
                      /\ \A n \in DOMAIN csvFiles[k].rows : csvFiles[k].rows[n][1] = b
             /\ \A k \in DOMAIN csvFiles :
                   csvFiles[k].dir =
                      IF HasKey(allResults[1], "block_size")
                      THEN Get(allResults[1], "block_size") \o <<"K">>
                      ELSE <<"unknown_block_size">>
             /\ RowTotal(csvFiles) = Len(allResults)
    /\ (entry = "main" /\ ppc \in {"done", "raised"} /\ allResults # <<>>)
          => /\ ppc = "done"
             /\ Len(csvFiles) = 2
             /\ RowTotal(Tail(csvFiles)) = Len(csvFiles[1].rows)
             /\ Len(csvFiles[1].rows) = Len(allResults)

\* C19: in process_benchmark_results a file that cannot be read is left out
\* of the result list and the pass goes on: after n files the list holds
\* exactly one record for every readable file among them, in enumeration
\* order, and the pass ends only after the last file.
C19_UnreadableSkipped ==
    entry = "main"
       => /\ Len(allResults) = Len(ReadableUpTo(fileIdx))
          /\ \A k \in DOMAIN allResults :
                /\ Get(allResults[k], "node_id") = ReadableUpTo(fileIdx)[k].node
                /\ Get(allResults[k], "benchmark_id") = <<"benchmark-01">>
                /\ HasKey(allResults[k], "block_size")
                      <=> \E j \in DOMAIN ReadableUpTo(fileIdx)[k].content.lines :
                             ReadableUpTo(fileIdx)[k].content.lines[j].kind = "bs"
          /\ ppc # "scan" => fileIdx = Len(files)

\* C19: an unreadable file came before a readable one, and the pass ended
\* with the readable one's record.
C19_Witness ==
    /\ entry = "main" /\ ppc # "scan"
    /\ Len(files) >= 2
    /\ ~files[1].readable /\ files[2].readable
    /\ allResults # <<>>
    /\ Get(allResults[1], "node_id") = files[2].node

----------------------------------------------------------------------------
(***************************************************************************)
(* Ordering of deployment and waiting in the multi command                *)
(***************************************************************************)

\* The wait step of worker i has begun (its process_node task has run).
WaitBegun(i) == tpc[i] \notin {"none", "created"}

\* C21: in multi-node mode the jobs are submitted one at a time in index
\* order 1..N; no worker's wait step begins before all N jobs have been
\* submitted, and no wait or log retrieval is ever performed for a worker
\* whose submission was rejected.
C21_DeployBeforeWait ==
    /\ [](mode = "multi"
            => /\ \A i \in 1..MaxNodes :
                     (WaitBegun(i) \/ waitResult[i] # "none" \/ calls[i] # <<>>)
                        => submitted = 1..nodes /\ i \in submitted
               /\ \A i \in rejected :
                     /\ ~WaitBegun(i)
                     /\ waitResult[i] = "none"
                     /\ calls[i] = <<>>
                     /\ written[i] = <<>>)
    /\ [][(mode = "multi" /\ submitted' # submitted)
             => /\ submitted' = submitted \cup {Cardinality(submitted) + 1}
                /\ submitted = 1..Cardinality(submitted)
                /\ \A i \in 1..MaxNodes : ~WaitBegun(i)]_vars

\* C21: with two workers, both jobs were submitted and the first worker's
\* wait step is under way.
C21_Witness ==
    /\ mode = "multi" /\ nodes >= 2
    /\ submitted = 1..nodes
    /\ tpc[1] = "waiting"

====
